---------------------------- MODULE Spec2Model ----------------------------
(***************************************************************************)
(* Incident intake and per-app sequential remediation queue of the Sanos   *)
(* API (mmoiss/tartanhacks).                                               *)
(*                                                                         *)
(* The process is one asyncio event loop: a handler or a worker runs       *)
(* without interruption from one suspension point (an await that really    *)
(* yields: the agent call, an outbound HTTP request) to the next.  Every   *)
(* action below is one such uninterrupted run.  Synchronous SQLAlchemy     *)
(* calls (query, commit) do not yield.                                     *)
(*                                                                         *)
(* Rows get their primary keys from a counter that never hands a key out   *)
(* twice.  A commit that updates a row which another session has deleted   *)
(* raises (StaleDataError) and persists nothing.                           *)
(***************************************************************************)
EXTENDS Naturals, Sequences, FiniteSets, Bags

(***************************************************************************)
(* Bounds and sample values.                                               *)
(***************************************************************************)
\* number of Incident rows ever created (ids 1..MaxIncidents)
MaxIncidents == 2

AppIds == {1, 2}
UserIds == {1, 2}
IncidentIds == 1 .. MaxIncidents
TaskIds == 1 .. MaxIncidents

\* table apps after both apps finished their setup: app 1 is deployed on
\* Vercel, app 2 is not
AppRows ==
    [a \in AppIds |->
        IF a = 1
        THEN [user_id |-> 1, webhook_key |-> "key-1",
              vercel_project_id |-> "prj-1", pipeline_step |-> "ready",
              pr_number |-> 0]
        ELSE [user_id |-> 2, webhook_key |-> "key-2",
              vercel_project_id |-> "", pipeline_step |-> "ready",
              pr_number |-> 0]]

\* table users: github_callback stores a non-empty token
UserRows == [u \in UserIds |-> [access_token |-> "gho_token"]]

\* Incident.status values
OpenStatuses == {"open", "analyzing", "pr_created"}
Statuses == OpenStatuses \cup {"resolved"}

\* the value of a table slot that holds no row
NoRow == [app_id |-> 0, source |-> "", error_message |-> "", status |-> ""]

\* what the agent prints: a sequence of tokens, each either free text or a
\* well-formed pull-request URL https://github.com/o/r/pull/<number>
Text == [kind |-> "text", number |-> 0]
PrUrl(n) == [kind |-> "url", number |-> n]
AgentOutputs == { <<Text>>, <<Text, PrUrl(8), PrUrl(7)>> }

\* the reports the monitored applications send: webhook key, source, message
Report(webhook_key, source, error_message) ==
    [webhook_key |-> webhook_key, source |-> source,
     error_message |-> error_message]
Reports ==
    { Report("key-1", "server", "TypeError"),
      Report("key-1", "client-global", "TypeError"),
      Report("key-2", "server", "TypeError"),
      Report("key-unknown", "server", "TypeError") }

\* the deployment events Vercel sends: event type, project, deployment id,
\* and the x-vercel-signature header ("" when the header is absent)
Event(type, name, id) == [type |-> type, name |-> name, id |-> id]
\* hmac.new(secret, payload, sha1).hexdigest(): decided by secret and body
Hmac(secret, body) == [present |-> TRUE, secret |-> secret, body |-> body]
NoSignature == [present |-> FALSE, secret |-> "", body |-> Event("", "", "")]
Events ==
    { Event("deployment.error", "prj-1", "dpl_1"),
      Event("deployment.succeeded", "prj-1", "dpl_1"),
      Event("deployment.error", "prj-2", "dpl_1"),
      Event("deployment.error", "prj-1", "") }
Signatures(body) ==
    { NoSignature, Hmac("whsec", body), Hmac("guess", body) }

VARIABLES
    incidents,      \* table incidents: id -> row, NoRow where no row exists
    next_incident,  \* the next primary key of table incidents
    analyses,       \* table analyses, in insertion order
    apps,           \* table apps
    users,          \* table users
    settings,       \* the configuration the process was started with
    fetching,       \* vercel_webhook requests suspended in the log fetch, a bag
    app_queues,     \* _app_queues: app_id -> [present, items]
    app_workers,    \* _app_workers: app_id -> task id, 0 where no entry
    tasks,          \* the asyncio tasks created for _worker
    resolving,      \* resolve_incident requests suspended in the merge call
    agent_log,      \* history: what the agent call of each incident did
    enq_log,        \* history: incident ids in enqueue order, per app
    deq_log,        \* history: incident ids in dequeue order, per app
    lost,           \* history: incidents queued or in the agent call when
                    \* the process was restarted
    integrations,   \* _run_integration tasks in the agent call, per app
    polls           \* get_app_status requests suspended in an API call

\* the variables no action of the incident engine writes
config == <<apps, users, settings, integrations, polls>>

vars == <<incidents, next_incident, analyses, config, fetching, app_queues,
          app_workers, tasks, resolving, agent_log, enq_log, deq_log, lost>>

(***************************************************************************)
(* Tables.                                                                 *)
(***************************************************************************)
\* Incident(app_id=..., source=..., status="open", error_message=...)
Incident(app_id, source, error_message) ==
    [app_id |-> app_id, source |-> source, error_message |-> error_message,
     status |-> "open"]

\* Analysis(incident_id=..., root_cause=..., suggested_fix=..., pr_url=...,
\* pr_number=...); an absent column value is "", <<>> or 0
Analysis(incident_id, root_cause, suggested_fix, pr_url, pr_number) ==
    [incident_id |-> incident_id, root_cause |-> root_cause,
     suggested_fix |-> suggested_fix, pr_url |-> pr_url,
     pr_number |-> pr_number]

Exists(incs, id) == incs[id] # NoRow

\* the analyses of one incident, oldest first
AnalysesOf(anas, id) == SelectSeq(anas, LAMBDA a : a.incident_id = id)

\* mutant: the analyses outlive their incident
CascadeKeep(anas, id) == anas

\* cascade="all, delete-orphan": deleting an incident deletes its analyses
CascadeDelete(anas, id) == SelectSeq(anas, LAMBDA a : a.incident_id # id)

(***************************************************************************)
(* The agent's output and the scan for the pull-request URL.               *)
(***************************************************************************)
\* "https://github.com/<owner>/<repo>/pull/<n>" for the sample repositories
UrlText(n) == IF n = 7 THEN "https://github.com/o/r/pull/7"
              ELSE "https://github.com/o/r/pull/8"

\* re.search(r"https://github\.com/.../pull/(\d+)", agent_output): the
\* leftmost match, as [found, pr_url, pr_number]
\* agent_output[-2000:], in tokens
RawCopyLimit == 2000
RawCopy(output) ==
    IF Len(output) <= RawCopyLimit THEN output
    ELSE SubSeq(output, Len(output) - RawCopyLimit + 1, Len(output))

\* mutant: the rightmost match
RECURSIVE PrMatchLast(_)
PrMatchLast(output) ==
    IF output = <<>>
    THEN [found |-> FALSE, pr_url |-> "", pr_number |-> 0]
    ELSE IF output[Len(output)].kind = "url"
         THEN [found |-> TRUE, pr_url |-> UrlText(output[Len(output)].number),
               pr_number |-> output[Len(output)].number]
         ELSE PrMatchLast(SubSeq(output, 1, Len(output) - 1))

RECURSIVE PrMatch(_)
PrMatch(output) ==
    IF output = <<>>
    THEN [found |-> FALSE, pr_url |-> "", pr_number |-> 0]
    ELSE IF Head(output).kind = "url"
         THEN [found |-> TRUE, pr_url |-> UrlText(Head(output).number),
               pr_number |-> Head(output).number]
         ELSE PrMatch(Tail(output))

(***************************************************************************)
(* Dedup filter: at ingest, and again at dequeue.                          *)
(***************************************************************************)
\* logs.py: an incident of the app with the same source and message that
\* is open, analyzing or pr_created
IngestExisting(incs, app_id, source, error_message) ==
    { i \in IncidentIds :
        /\ incs[i].app_id = app_id
        /\ incs[i].source = source
        /\ incs[i].error_message = error_message
        /\ incs[i].status \in OpenStatuses }

\* mutant: the re-check looks at the incidents of every app
DequeueExistingAnyApp(incs, item) ==
    { i \in IncidentIds :
        /\ incs[i].error_message = item.error_message
        /\ i # item.incident_id
        /\ incs[i].status \in OpenStatuses }

\* mutant: the re-check finds nothing
DequeueExistingNone(incs, item) == {}

\* incident_queue.py: another incident of the app with the same message
\* that is open, analyzing or pr_created
DequeueExisting(incs, item) ==
    { i \in IncidentIds :
        /\ incs[i].app_id = item.app_id
        /\ incs[i].error_message = item.error_message
        /\ i # item.incident_id
        /\ incs[i].status \in OpenStatuses }

(***************************************************************************)
(* The per-app queue and its worker.                                       *)
(***************************************************************************)
\* history: how far the agent call of an incident has come
NoCall == [state |-> "none", output |-> <<>>]
Running == [state |-> "running", output |-> <<>>]
Returned(output) == [state |-> "returned", output |-> output]
Raised == [state |-> "raised", output |-> <<>>]

NoItem == [incident_id |-> 0, app_id |-> 0, error_message |-> ""]
NoTask == [app_id |-> 0, pc |-> "none", item |-> NoItem]

QueueItem(app_id, incident_id, error_message) ==
    [incident_id |-> incident_id, app_id |-> app_id,
     error_message |-> error_message]

\* mutant: the new item goes to the head of the queue
PutFirst(items, item) == <<item>> \o items

\* mutant: the item is put on the queue twice
PutTwice(items, item) == items \o <<item, item>>

\* asyncio.Queue.put_nowait
PutNowait(items, item) == Append(items, item)

\* asyncio.Queue.get_nowait: the item taken and the items left
GetNowait(items) == [item |-> Head(items), rest |-> Tail(items)]

\* asyncio.Task.done()
Done(k) == tasks[k].pc = "done"

\* mutant: a worker is started on every enqueue
NeedsWorkerAlways(app_id) == TRUE

\* app_id not in _app_workers or _app_workers[app_id].done()
NeedsWorker(app_id) == app_workers[app_id] = 0 \/ Done(app_workers[app_id])

\* asyncio.create_task: a task object that no earlier call returned
NewTask == CHOOSE k \in TaskIds :
              /\ tasks[k].pc = "none"
              /\ \A j \in TaskIds : tasks[j].pc = "none" => k <= j

\* enqueue_incident
EnqueueIncident(app_id, incident_id, error_message) ==
    /\ app_queues' =
          [app_queues EXCEPT ![app_id] =
              [present |-> TRUE,
               items |-> PutNowait(@.items,
                           QueueItem(app_id, incident_id, error_message))]]
    /\ enq_log' = [enq_log EXCEPT ![app_id] = Append(@, incident_id)]
    /\ IF NeedsWorker(app_id)
       THEN /\ tasks' = [tasks EXCEPT ![NewTask] =
                            [app_id |-> app_id, pc |-> "created",
                             item |-> NoItem]]
            /\ app_workers' = [app_workers EXCEPT ![app_id] = NewTask]
       ELSE UNCHANGED <<tasks, app_workers>>

\* mutant: the runner does not look whether the row exists
PassesOnSkipOnly(incs, item) == DequeueExisting(incs, item) # {}

\* one pass of the loop body decides what happens to a dequeued item
\* without suspending: skipped as a duplicate, or dropped by the runner
\* because its row is gone
PassesWithoutAgent(incs, item) ==
    \/ DequeueExisting(incs, item) # {}
    \/ ~Exists(incs, item.incident_id)

\* mutant: the loop ends at the first item it skips
DrainStopsAtSkip(incs, items) ==
    IF items = <<>>
    THEN [dequeued |-> <<>>, rest |-> <<>>, current |-> NoItem]
    ELSE IF PassesWithoutAgent(incs, Head(items))
         THEN [dequeued |-> <<Head(items).incident_id>>,
               rest |-> Tail(items), current |-> NoItem]
         ELSE [dequeued |-> <<Head(items).incident_id>>,
               rest |-> Tail(items), current |-> Head(items)]

\* while not queue.empty(): ... up to the first item that reaches the agent
\* call: the ids dequeued, the items left, and the item the agent is called
\* for (NoItem when the queue ran empty)
RECURSIVE Drain(_, _)
Drain(incs, items) ==
    IF items = <<>>
    THEN [dequeued |-> <<>>, rest |-> <<>>, current |-> NoItem]
    ELSE LET got == GetNowait(items) IN
         IF PassesWithoutAgent(incs, got.item)
         THEN LET r == Drain(incs, got.rest) IN
              [r EXCEPT !.dequeued = <<got.item.incident_id>> \o @]
         ELSE [dequeued |-> <<got.item.incident_id>>, rest |-> got.rest,
               current |-> got.item]

\* mutant: the runner calls the agent without marking the incident
StatusBeforeAgentOpen == "open"

\* incident.status = "analyzing"; db.commit(), before any external work
StatusBeforeAgent == "analyzing"

\* the worker of task k runs its loop on the committed rows incs until it
\* suspends in the agent call or leaves the loop; alog is the agent history
WorkerRun(k, incs, alog) ==
    LET app_id == tasks[k].app_id
        r == Drain(incs, app_queues[app_id].items)
        cur == r.current
    IN /\ app_queues' = [app_queues EXCEPT ![app_id].items = r.rest]
       /\ deq_log' = [deq_log EXCEPT ![app_id] = @ \o r.dequeued]
       /\ IF cur # NoItem
          THEN \* _run_incident_analysis up to the agent call
               /\ incidents' =
                     [incs EXCEPT ![cur.incident_id].status =
                                     StatusBeforeAgent]
               /\ tasks' = [tasks EXCEPT ![k].pc = "agent", ![k].item = cur]
               /\ agent_log' = [alog EXCEPT ![cur.incident_id] =
                                   Running]
               /\ UNCHANGED app_workers
          ELSE \* finally: _app_workers.pop(app_id, None)
               /\ incidents' = incs
               /\ tasks' = [tasks EXCEPT ![k].pc = "done", ![k].item = NoItem]
               /\ app_workers' = [app_workers EXCEPT ![app_id] = 0]
               /\ agent_log' = alog

\* an exception of the runner leaves _worker through its finally
WorkerRaise(k, alog) ==
    LET app_id == tasks[k].app_id
    IN /\ tasks' = [tasks EXCEPT ![k].pc = "done", ![k].item = NoItem]
       /\ app_workers' = [app_workers EXCEPT ![app_id] = 0]
       /\ agent_log' = alog
       /\ UNCHANGED <<incidents, analyses, app_queues, deq_log>>

(***************************************************************************)
(* The remediation runner, from the return of the agent call on.           *)
(***************************************************************************)
\* mutant: without a URL the incident is reset to open
StatusAfterSuccessReset(match) == IF match.found THEN "pr_created" ELSE "open"

\* the status the runner writes after a successful agent call
StatusAfterSuccess(match) == IF match.found THEN "pr_created" ELSE "analyzing"

\* mutant: the failure path leaves the status as it is
StatusAfterFailureStuck == "analyzing"

\* the status the runner writes after a failed agent call
StatusAfterFailure == "open"

\* the Analysis row of a successful call
SuccessAnalysis(incident_id, output, match) ==
    Analysis(incident_id, "parsed", RawCopy(output), match.pr_url,
             match.pr_number)

\* mutant: the failure record carries a pull-request reference
FailureAnalysisWithPr(incident_id) ==
    Analysis(incident_id, "Analysis failed", <<>>, UrlText(7), 7)

\* the Analysis row of a failed call: no pr_url, no pr_number
FailureAnalysis(incident_id) ==
    Analysis(incident_id, "Analysis failed", <<>>, "", 0)

\* db.add(analysis); incident.status = status; db.commit(), then back in
\* the worker's loop; the commit raises when the incident's row is gone,
\* nothing is persisted, and the exception leaves the runner and the worker
RunnerFinish(k, status, analysis, alog) ==
    LET id == tasks[k].item.incident_id
    IN IF Exists(incidents, id)
       THEN /\ analyses' = Append(analyses, analysis)
            /\ WorkerRun(k, [incidents EXCEPT ![id].status = status], alog)
       ELSE WorkerRaise(k, alog)

\* the task of a worker is scheduled for the first time
WorkerStart(k) ==
    /\ tasks[k].pc = "created"
    /\ WorkerRun(k, incidents, agent_log)
    /\ UNCHANGED <<lost, next_incident, analyses, config, fetching, resolving,
                   enq_log>>

\* run_dedalus_agent returns output: parse it, persist the Analysis, set the
\* status
AgentReturns(k, output) ==
    /\ tasks[k].pc = "agent"
    /\ LET id == tasks[k].item.incident_id
           match == PrMatch(output)
       IN RunnerFinish(k, StatusAfterSuccess(match),
                       SuccessAnalysis(id, output, match),
                       [agent_log EXCEPT ![id] = Returned(output)])
    /\ UNCHANGED <<lost, next_incident, config, fetching, resolving, enq_log>>

\* run_dedalus_agent raises: persist the failure Analysis, reset the status
AgentRaises(k) ==
    /\ tasks[k].pc = "agent"
    /\ LET id == tasks[k].item.incident_id
       IN RunnerFinish(k, StatusAfterFailure, FailureAnalysis(id),
                       [agent_log EXCEPT ![id] = Raised])
    /\ UNCHANGED <<lost, next_incident, config, fetching, resolving, enq_log>>

(***************************************************************************)
(* Runtime-error intake: POST /webhooks/logs.                              *)
(***************************************************************************)
\* mutant: every key names every app
AppsByKeyAny(webhook_key) == AppIds

\* db.query(App).filter(App.webhook_key == payload.webhook_key)
AppsByKey(webhook_key) == {a \in AppIds : apps[a].webhook_key = webhook_key}

\* mutant: the owner's token is never missed
HasTokenAlways(app_id) == TRUE

\* user and user.access_token, for the owner of the app
HasToken(app_id) == users[apps[app_id].user_id].access_token # ""

\* INSERT INTO incidents ...; db.commit(); db.refresh(incident)
InsertIncident(row) ==
    /\ incidents' = [incidents EXCEPT ![next_incident] = row]
    /\ next_incident' = next_incident + 1

\* the "status" of the handler's answer to a report in the current state
ReceiveErrorLogStatus(webhook_key, source, error_message) ==
    IF AppsByKey(webhook_key) = {} THEN "404"
    ELSE IF \E app_id \in AppsByKey(webhook_key) :
               IngestExisting(incidents, app_id, source, error_message) # {}
         THEN "duplicate"
         ELSE "created"

\* what either intake handler answers after its dedup query for the triple:
\* "duplicate" with existing.id, where existing is whichever matching row
\* .first() returns (the query has no ORDER BY), or "created" with the new
\* row's id
DedupAnswers(app_id, source, error_message) ==
    IF IngestExisting(incidents, app_id, source, error_message) = {}
    THEN {[status |-> "created", incident_id |-> next_incident]}
    ELSE {[status |-> "duplicate", incident_id |-> e] :
             e \in IngestExisting(incidents, app_id, source, error_message)}

\* the request is answered "created": a row was inserted, and an item
\* enqueued when the owner has an access token.  An unknown key (404) and a
\* duplicate change nothing.
ReceiveErrorLog(webhook_key, source, error_message) ==
    /\ next_incident \in IncidentIds
    /\ ReceiveErrorLogStatus(webhook_key, source, error_message) = "created"
    /\ \E app_id \in AppsByKey(webhook_key) :
          /\ InsertIncident(Incident(app_id, source, error_message))
          /\ IF HasToken(app_id)
             THEN EnqueueIncident(app_id, next_incident, error_message)
             ELSE UNCHANGED <<app_queues, enq_log, tasks, app_workers>>
    /\ UNCHANGED <<lost, analyses, config, fetching, resolving, agent_log, deq_log>>

(***************************************************************************)
(* Deployment-failure intake: POST /webhooks/vercel.                       *)
(***************************************************************************)
\* _verify_signature
VerifySignature(payload, signature, secret) ==
    IF secret = "" THEN TRUE ELSE Hmac(secret, payload) = signature

\* if secret and x_vercel_signature: if not _verify_signature(...): 401
SignatureRejected(payload, signature) ==
    /\ settings.vercel_webhook_secret # ""
    /\ signature.present
    /\ ~VerifySignature(payload, signature, settings.vercel_webhook_secret)

\* the pipeline steps in which a deployment failure is not acted on
InitialSteps == {"deploying", "pr_merged", "pr_created", "integrating", "pending"}

\* f"Vercel deployment failed (deployment {deployment_id})"
DeploymentMessage(deployment_id) ==
    IF deployment_id = "dpl_1"
    THEN "Vercel deployment failed (deployment dpl_1)"
    ELSE "Vercel deployment failed (deployment other)"

\* what the handler holds while it is suspended in _fetch_vercel_logs; and
\* history: peer is the incident that another request for the same app and
\* deployment created while this one was suspended, 0 when none did
Fetch(app_id, deployment_id, github_token, peer) ==
    [app_id |-> app_id, deployment_id |-> deployment_id,
     github_token |-> github_token, peer |-> peer]

\* how many vercel_webhook requests may be suspended in the fetch at once
MaxConcurrent == 2

\* mutant: every event type is taken for a failed deployment
IsDeploymentErrorAlways(event) == TRUE

\* event_type == "deployment.error"
IsDeploymentError(event) == event.type = "deployment.error"

\* db.query(App).filter(App.vercel_project_id == project_name)
VercelApps(name) == {a \in AppIds : apps[a].vercel_project_id = name}

\* what the handler does with a request in the current state, in the order
\* of its checks: 401, one of the "ignored" answers, or on to the log fetch
VercelAnswer(event, signature) ==
    IF SignatureRejected(event, signature) THEN "401"
    ELSE IF ~IsDeploymentError(event) THEN "ignored: event type"
    ELSE IF event.id = "" \/ event.name = ""
         THEN "ignored: missing deployment info"
    ELSE IF VercelApps(event.name) = {} THEN "ignored: app not found"
    ELSE IF \E a \in VercelApps(event.name) :
               apps[a].pipeline_step \in InitialSteps
         THEN "ignored: initial deployment"
    ELSE IF \E a \in VercelApps(event.name) : ~HasToken(a)
         THEN "ignored: no github token"
    ELSE "fetch"

\* the handler up to the log fetch.  A rejected signature (401) and an
\* ignored event change nothing.  Requests that hold equal values are
\* interchangeable: fetching is a bag.
VercelBegin(event, signature) ==
    /\ VercelAnswer(event, signature) = "fetch"
    /\ \E app_id \in VercelApps(event.name) :
          LET f == Fetch(app_id, event.id,
                         users[apps[app_id].user_id].access_token, 0)
          IN /\ BagCardinality(fetching) < MaxConcurrent
             /\ fetching' = fetching (+) SetToBag({f})
    /\ UNCHANGED <<lost, incidents, next_incident, analyses, config, app_queues,
                   app_workers, tasks, resolving, agent_log, enq_log,
                   deq_log>>

\* two requests are for the same app and the same deployment
SameDeployment(f, g) ==
    f.app_id = g.app_id /\ f.deployment_id = g.deployment_id

\* mutant: the dedup query of the deployment handler finds nothing
VercelExistingNone(incs, app_id, error_message) == {}

\* vercel.py: an incident of the app with source "vercel" and the message
\* that is open, analyzing or pr_created
VercelExisting(incs, app_id, error_message) ==
    IngestExisting(incs, app_id, "vercel", error_message)

\* the handler from the return of the log fetch on: dedup, insert, enqueue
VercelFinish(f) ==
    /\ BagIn(f, fetching)
    /\ LET error_message == DeploymentMessage(f.deployment_id)
           rest == fetching (-) SetToBag({f})
       IN IF VercelExisting(incidents, f.app_id, error_message) = {}
          THEN /\ next_incident \in IncidentIds
               /\ InsertIncident(Incident(f.app_id, "vercel", error_message))
               /\ EnqueueIncident(f.app_id, next_incident, error_message)
               /\ fetching' =
                     BagOfAll(LAMBDA g : IF SameDeployment(f, g)
                                         THEN [g EXCEPT !.peer = next_incident]
                                         ELSE g,
                              rest)
          ELSE /\ fetching' = rest
               /\ UNCHANGED <<incidents, next_incident, app_queues, enq_log,
                              tasks, app_workers>>
    /\ UNCHANGED <<lost, analyses, config, resolving, agent_log, deq_log>>

(***************************************************************************)
(* Operator endpoints on one incident.                                     *)
(***************************************************************************)
\* the incident of that id and app that the app's owner may act on
OwnedIncident(user_id, app_id, incident_id) ==
    /\ apps[app_id].user_id = user_id
    /\ Exists(incidents, incident_id)
    /\ incidents[incident_id].app_id = app_id

\* DELETE /apps/{app_id}/incidents/{incident_id}
DeleteIncident(user_id, app_id, incident_id) ==
    /\ OwnedIncident(user_id, app_id, incident_id)
    /\ incidents' = [incidents EXCEPT ![incident_id] = NoRow]
    /\ analyses' = CascadeDelete(analyses, incident_id)
    /\ UNCHANGED <<lost, next_incident, config, fetching, app_queues, app_workers,
                   tasks, resolving, agent_log, enq_log, deq_log>>

\* the analyses of the incident that carry a pull-request number
WithPrNumber(incident_id) ==
    SelectSeq(AnalysesOf(analyses, incident_id), LAMBDA a : a.pr_number # 0)

\* incident.status = "resolved"; db.commit()
MarkResolved(incident_id) ==
    incidents' = [incidents EXCEPT ![incident_id].status = "resolved"]

\* POST .../resolve when no analysis carries a pull-request number: nothing
\* is awaited
ResolveIncident(user_id, app_id, incident_id) ==
    /\ OwnedIncident(user_id, app_id, incident_id)
    /\ WithPrNumber(incident_id) = <<>>
    /\ MarkResolved(incident_id)
    /\ UNCHANGED <<lost, next_incident, analyses, config, fetching, app_queues,
                   app_workers, tasks, resolving, agent_log, enq_log,
                   deq_log>>

\* POST .../resolve when an analysis carries a pull-request number: the
\* handler suspends in the merge request
ResolveBegin(user_id, app_id, incident_id) ==
    /\ OwnedIncident(user_id, app_id, incident_id)
    /\ WithPrNumber(incident_id) # <<>>
    /\ incident_id \notin resolving
    /\ resolving' = resolving \cup {incident_id}
    /\ UNCHANGED <<lost, incidents, next_incident, analyses, config, fetching,
                   app_queues, app_workers, tasks, agent_log, enq_log,
                   deq_log>>

\* the merge request has answered (merged, refused or failed: the handler
\* goes on alike); the commit raises when the row is gone
ResolveFinish(incident_id) ==
    /\ incident_id \in resolving
    /\ resolving' = resolving \ {incident_id}
    /\ IF Exists(incidents, incident_id)
       THEN MarkResolved(incident_id)
       ELSE UNCHANGED incidents
    /\ UNCHANGED <<lost, next_incident, analyses, config, fetching, app_queues,
                   app_workers, tasks, agent_log, enq_log, deq_log>>

(***************************************************************************)
(* The setup pipeline: integrate_app and its background task,              *)
(* create_deployment, and the status poller get_app_status.  Of table apps *)
(* the columns pipeline_step, vercel_project_id and pr_number are kept.    *)
(***************************************************************************)
\* the variables of the incident engine, which the setup pipeline leaves
\* alone
engine == <<incidents, next_incident, analyses, fetching, app_queues,
            app_workers, tasks, resolving, agent_log, enq_log, deq_log, lost>>

\* how many integration tasks of one app the model lets run at once
MaxIntegrations == 2

\* the line SANOS_ALREADY_INSTRUMENTED=true in the agent's output
Marker == [kind |-> "marker", number |-> 0]

\* what the integration agent prints: already instrumented, a pull-request
\* URL, or neither
IntegrationOutputs == { <<Marker>>, <<Text, PrUrl(8)>>, <<Text>> }

\* "SANOS_ALREADY_INSTRUMENTED=true" in agent_output
AlreadyInstrumented(output) ==
    \E n \in 1 .. Len(output) : output[n] = Marker

\* db.query(App).filter(App.id == app_id, App.user_id == user.id)
OwnedApp(user_id, app_id) == apps[app_id].user_id = user_id

\* mutant: an integration is started in every step
MayIntegrateAlways(app_id) == TRUE

\* not (app.pipeline_step not in ("pending", "error"))
MayIntegrate(app_id) == apps[app_id].pipeline_step \in {"pending", "error"}

\* what integrate_app answers in the current state
IntegrateAnswer(user_id, app_id) ==
    IF ~OwnedApp(user_id, app_id) THEN "404"
    ELSE IF ~MayIntegrate(app_id) THEN "already_started"
    ELSE IF users[user_id].access_token = "" THEN "401"
    ELSE "integrating"

\* POST /apps/{app_id}/integrate past its guard: pipeline_step is committed
\* as integrating, and then, when the user has a token, the background task
\* is added, which goes to its agent call without writing anything.  A 404
\* and "already_started" change nothing.
IntegrateApp(user_id, app_id) ==
    /\ OwnedApp(user_id, app_id)
    /\ MayIntegrate(app_id)
    /\ apps' = [apps EXCEPT ![app_id].pipeline_step = "integrating"]
    /\ IF users[user_id].access_token # ""
       THEN /\ integrations[app_id] < MaxIntegrations
            /\ integrations' = [integrations EXCEPT ![app_id] = @ + 1]
       ELSE UNCHANGED integrations
    /\ UNCHANGED <<engine, users, settings, polls>>

\* run_dedalus_agent returns in _run_integration: the task writes
\* pr_merged, or pr_created with the pull request it parsed, on the row it
\* loaded before the call
IntegrationReturns(app_id, output) ==
    /\ integrations[app_id] > 0
    /\ integrations' = [integrations EXCEPT ![app_id] = @ - 1]
    /\ apps' =
          IF AlreadyInstrumented(output)
          THEN [apps EXCEPT ![app_id].pipeline_step = "pr_merged"]
          ELSE IF PrMatch(output).found
               THEN [apps EXCEPT ![app_id].pipeline_step = "pr_created",
                                 ![app_id].pr_number =
                                     PrMatch(output).pr_number]
               ELSE [apps EXCEPT ![app_id].pipeline_step = "pr_created"]
    /\ UNCHANGED <<engine, users, settings, polls>>

\* run_dedalus_agent raises in _run_integration
IntegrationRaises(app_id) ==
    /\ integrations[app_id] > 0
    /\ integrations' = [integrations EXCEPT ![app_id] = @ - 1]
    /\ apps' = [apps EXCEPT ![app_id].pipeline_step = "error"]
    /\ UNCHANGED <<engine, users, settings, polls>>

\* the Vercel project name create_deployment derives from the repository
ProjectName(app_id) == IF app_id = 1 THEN "prj-1" ELSE "prj-2"

\* create_deployment, from the return of its last Vercel call on: the app
\* of the repository is marked as deploying
CreateDeployment(user_id, app_id) ==
    /\ OwnedApp(user_id, app_id)
    /\ apps' = [apps EXCEPT ![app_id].vercel_project_id = ProjectName(app_id),
                            ![app_id].pipeline_step = "deploying"]
    /\ UNCHANGED <<engine, users, settings, integrations, polls>>

\* what a get_app_status request holds while it is suspended: in the
\* GitHub call that asks whether the pull request is merged, or in the
\* Vercel call that asks for the deployment's state
Poll(app_id, at) == [app_id |-> app_id, at |-> at]

\* the call get_app_status suspends in for the row it loaded, "" when it
\* answers without a call
PollCall(app_id) ==
    IF apps[app_id].pipeline_step = "pr_created"
    THEN IF apps[app_id].pr_number # 0 THEN "github" ELSE ""
    ELSE IF /\ apps[app_id].vercel_project_id # ""
            /\ apps[app_id].pipeline_step = "deploying"
         THEN "vercel"
         ELSE ""

\* GET /apps/{app_id}/status up to its API call.  Requests that hold equal
\* values are interchangeable: polls is a set.
PollBegin(user_id, app_id) ==
    /\ OwnedApp(user_id, app_id)
    /\ PollCall(app_id) # ""
    /\ Poll(app_id, PollCall(app_id)) \notin polls
    /\ polls' = polls \cup {Poll(app_id, PollCall(app_id))}
    /\ UNCHANGED <<engine, apps, users, settings, integrations>>

\* the GitHub call returns (or fails: merged is FALSE): a merged pull
\* request is written as pr_merged; the refreshed row is not deploying, so
\* the request ends
PollGithubReturns(p, merged) ==
    /\ p \in polls
    /\ p.at = "github"
    /\ polls' = polls \ {p}
    /\ apps' = IF merged
               THEN [apps EXCEPT ![p.app_id].pipeline_step = "pr_merged"]
               ELSE apps
    /\ UNCHANGED <<engine, users, settings, integrations>>

\* the states Vercel reports for the latest deployment
VercelStates == {"BUILDING", "READY", "ERROR"}

\* the Vercel call returns: a deployment that is READY is written as ready
PollVercelReturns(p, vercel_state) ==
    /\ p \in polls
    /\ p.at = "vercel"
    /\ polls' = polls \ {p}
    /\ apps' = IF vercel_state = "READY"
               THEN [apps EXCEPT ![p.app_id].pipeline_step = "ready"]
               ELSE apps
    /\ UNCHANGED <<engine, users, settings, integrations>>

Pipeline ==
    \/ \E user_id \in UserIds, app_id \in AppIds :
          \/ IntegrateApp(user_id, app_id)
          \/ CreateDeployment(user_id, app_id)
          \/ PollBegin(user_id, app_id)
    \/ \E app_id \in AppIds :
          \/ \E output \in IntegrationOutputs :
                IntegrationReturns(app_id, output)
          \/ IntegrationRaises(app_id)
    \/ \E p \in polls :
          \/ \E merged \in BOOLEAN : PollGithubReturns(p, merged)
          \/ \E vercel_state \in VercelStates :
                PollVercelReturns(p, vercel_state)

(***************************************************************************)
(* The system.                                                             *)
(***************************************************************************)
Init ==
    /\ incidents = [i \in IncidentIds |-> NoRow]
    /\ next_incident = 1
    /\ analyses = <<>>
    /\ apps = AppRows
    /\ users = UserRows
    /\ settings = [vercel_webhook_secret |-> "whsec", vercel_token |-> "vt"]
    /\ fetching = EmptyBag
    /\ app_queues = [a \in AppIds |-> [present |-> FALSE, items |-> <<>>]]
    /\ app_workers = [a \in AppIds |-> 0]
    /\ tasks = [k \in TaskIds |-> NoTask]
    /\ resolving = {}
    /\ agent_log = [i \in IncidentIds |-> NoCall]
    /\ enq_log = [a \in AppIds |-> <<>>]
    /\ deq_log = [a \in AppIds |-> <<>>]
    /\ lost = {}
    /\ integrations = [a \in AppIds |-> 0]
    /\ polls = {}

Intake ==
    \/ \E r \in Reports :
          ReceiveErrorLog(r.webhook_key, r.source, r.error_message)
    \/ \E event \in Events : \E signature \in Signatures(event) :
          VercelBegin(event, signature)
    \/ \E f \in BagToSet(fetching) : VercelFinish(f)

Worker ==
    \E k \in TaskIds :
        \/ WorkerStart(k)
        \/ \E output \in AgentOutputs : AgentReturns(k, output)
        \/ AgentRaises(k)

Operator ==
    \E user_id \in UserIds, app_id \in AppIds, incident_id \in IncidentIds :
        \/ DeleteIncident(user_id, app_id, incident_id)
        \/ ResolveIncident(user_id, app_id, incident_id)
        \/ ResolveBegin(user_id, app_id, incident_id)
        \/ ResolveFinish(incident_id)

Next == Intake \/ Worker \/ Operator

Spec == Init /\ [][Next]_vars

\* the incidents that have an item on a queue or are in the agent call
Interrupted ==
    { i \in IncidentIds :
        \/ \E a \in AppIds : \E n \in 1 .. Len(app_queues[a].items) :
              app_queues[a].items[n].incident_id = i
        \/ \E k \in TaskIds :
              tasks[k].pc = "agent" /\ tasks[k].item.incident_id = i }

\* mutant: the queues outlive the process
RestartKeepsQueues ==
    /\ app_workers' = [a \in AppIds |-> 0]
    /\ tasks' = [k \in TaskIds |-> NoTask]
    /\ fetching' = EmptyBag
    /\ resolving' = {}
    /\ lost' = lost \cup Interrupted
    /\ UNCHANGED <<incidents, next_incident, analyses, config, app_queues,
                   agent_log, enq_log, deq_log>>

\* the process is stopped and started again: the module is imported anew,
\* _app_queues and _app_workers are empty, the tasks and the requests that
\* were suspended are gone, and the database is as it was committed
Restart ==
    /\ app_queues' = [a \in AppIds |-> [present |-> FALSE, items |-> <<>>]]
    /\ app_workers' = [a \in AppIds |-> 0]
    /\ tasks' = [k \in TaskIds |-> NoTask]
    /\ fetching' = EmptyBag
    /\ resolving' = {}
    /\ lost' = lost \cup Interrupted
    /\ UNCHANGED <<incidents, next_incident, analyses, config, agent_log,
                   enq_log, deq_log>>

RestartNext == Next \/ Restart

RestartSpec == Init /\ [][RestartNext]_vars

\* App.pipeline_step: the values the setup pipeline writes
PipelineSteps ==
    {"pending", "integrating", "pr_created", "pr_merged", "deploying",
     "error", "ready"}

\* the tables in the other states the intake handlers test for: app 1,
\* deployed on Vercel, stands at any step of its setup; the owner of app 2,
\* deployed on Vercel as well, has no access token
SetupInit ==
    /\ incidents = [i \in IncidentIds |-> NoRow]
    /\ next_incident = 1
    /\ analyses = <<>>
    /\ \E step \in PipelineSteps :
          apps = [AppRows EXCEPT ![1].pipeline_step = step,
                                 ![2].vercel_project_id = "prj-2"]
    /\ users = [UserRows EXCEPT ![2].access_token = ""]
    /\ settings = [vercel_webhook_secret |-> "whsec", vercel_token |-> "vt"]
    /\ fetching = EmptyBag
    /\ app_queues = [a \in AppIds |-> [present |-> FALSE, items |-> <<>>]]
    /\ app_workers = [a \in AppIds |-> 0]
    /\ tasks = [k \in TaskIds |-> NoTask]
    /\ resolving = {}
    /\ agent_log = [i \in IncidentIds |-> NoCall]
    /\ enq_log = [a \in AppIds |-> <<>>]
    /\ deq_log = [a \in AppIds |-> <<>>]
    /\ lost = {}
    /\ integrations = [a \in AppIds |-> 0]
    /\ polls = {}

SetupSpec == SetupInit /\ [][Next]_vars

\* the tables after both users connected a repository: the apps are
\* pending, not deployed and without pull request; the row of user 2 holds
\* no access token
PipelineInit ==
    /\ apps = [a \in AppIds |->
                 [AppRows[a] EXCEPT !.vercel_project_id = "",
                                    !.pipeline_step = "pending",
                                    !.pr_number = 0]]
    /\ users = [UserRows EXCEPT ![2].access_token = ""]
    /\ settings = [vercel_webhook_secret |-> "whsec", vercel_token |-> "vt"]
    /\ integrations = [a \in AppIds |-> 0]
    /\ polls = {}
    /\ incidents = [i \in IncidentIds |-> NoRow]
    /\ next_incident = 1
    /\ analyses = <<>>
    /\ fetching = EmptyBag
    /\ app_queues = [a \in AppIds |-> [present |-> FALSE, items |-> <<>>]]
    /\ app_workers = [a \in AppIds |-> 0]
    /\ tasks = [k \in TaskIds |-> NoTask]
    /\ resolving = {}
    /\ agent_log = [i \in IncidentIds |-> NoCall]
    /\ enq_log = [a \in AppIds |-> <<>>]
    /\ deq_log = [a \in AppIds |-> <<>>]
    /\ lost = {}

PipelineSpec == PipelineInit /\ [][Pipeline]_vars

\* the event loop runs every task that is ready, and every agent call
\* returns or raises in the end
WorkerFairness(k) ==
    /\ WF_vars(WorkerStart(k))
    /\ WF_vars(AgentRaises(k) \/ \E output \in AgentOutputs :
                                    AgentReturns(k, output))

FairSpec == Spec /\ \A k \in TaskIds : WorkerFairness(k)

\* as FairSpec for the workers of app 2 only: an agent call made for app 1
\* may never return
WorkerFairnessOf(app_id, k) ==
    /\ WF_vars(tasks[k].app_id = app_id /\ WorkerStart(k))
    /\ WF_vars(/\ tasks[k].app_id = app_id
               /\ (AgentRaises(k) \/ \E output \in AgentOutputs :
                                         AgentReturns(k, output)))

StarvedSpec == Spec /\ \A k \in TaskIds : WorkerFairnessOf(2, k)

(***************************************************************************)
(* Properties.                                                             *)
(***************************************************************************)
\* the tasks of an app's worker that have not finished
Unfinished(app_id) ==
    {k \in TaskIds : tasks[k].app_id = app_id /\ tasks[k].pc \in {"created", "agent"}}

\* the incident's agent call is in flight
InFlight(incident_id) ==
    \E k \in TaskIds :
        tasks[k].pc = "agent" /\ tasks[k].item.incident_id = incident_id

IsPrefix(s, t) == Len(s) <= Len(t) /\ SubSeq(t, 1, Len(s)) = s

Last(s) == s[Len(s)]

\* C1: in every reachable state every app has at most one worker task
\* (created or suspended in the agent call) that has not finished.
C1_OneWorkerPerApp ==
    \A a \in AppIds : Cardinality(Unfinished(a)) <= 1

\* C1 witness: a worker of the app has finished and a fresh one, started
\* by a later enqueue, is suspended in its agent call.
C1_Witness ==
    \E a \in AppIds : \E k1, k2 \in TaskIds :
        /\ tasks[k1].app_id = a /\ tasks[k1].pc = "done"
        /\ tasks[k2].app_id = a /\ tasks[k2].pc = "agent"

\* C2: per app, the dequeued ids are a prefix of the enqueued ids, the
\* queue holds the rest in order, and an item whose handling has not ended
\* is the one dequeued last: no later item is dequeued before it ends.
C2_FifoPerApp ==
    \A a \in AppIds :
        /\ IsPrefix(deq_log[a], enq_log[a])
        /\ enq_log[a] = deq_log[a] \o
              [n \in 1 .. Len(app_queues[a].items) |->
                  app_queues[a].items[n].incident_id]
        /\ \A k \in TaskIds :
              tasks[k].app_id = a /\ tasks[k].pc = "agent"
              => /\ deq_log[a] # <<>>
                 /\ tasks[k].item.incident_id = Last(deq_log[a])

\* C2 witness: two items of one app were dequeued, the second is being
\* handled.
C2_Witness ==
    \E a \in AppIds :
        /\ Len(deq_log[a]) >= 2
        /\ InFlight(Last(deq_log[a]))

\* the incidents of an app in status analyzing
Analyzing(app_id) ==
    {i \in IncidentIds :
        incidents[i].app_id = app_id /\ incidents[i].status = "analyzing"}

\* C3 as stated: every app has at most one incident in status analyzing.
C3_Original ==
    \A a \in AppIds : Cardinality(Analyzing(a)) <= 1

\* C3 amended: every app has at most one incident in status analyzing
\* whose agent call is in flight; every other analyzing incident has an
\* Analysis of a successful call that found no pull-request URL.
C3_OneInFlightAnalyzing ==
    \A a \in AppIds :
        /\ Cardinality({i \in Analyzing(a) : InFlight(i)}) <= 1
        /\ \A i \in Analyzing(a) :
              ~InFlight(i)
              => \E n \in 1 .. Len(analyses) :
                    /\ analyses[n].incident_id = i
                    /\ analyses[n].root_cause = "parsed"
                    /\ analyses[n].pr_url = ""

\* C3 witness: two incidents of one app are analyzing, one in flight and
\* one left behind by a call that printed no URL.
C3_Witness ==
    \E a \in AppIds : \E i, j \in Analyzing(a) :
        i # j /\ InFlight(i) /\ ~InFlight(j)

\* C4 as stated: no two incidents with the same app, source and message
\* are both open, analyzing or pr_created.
C4_OneOpenPerTriple ==
    \A i, j \in IncidentIds :
        /\ i # j
        /\ Exists(incidents, i) /\ Exists(incidents, j)
        /\ incidents[i].app_id = incidents[j].app_id
        /\ incidents[i].source = incidents[j].source
        /\ incidents[i].error_message = incidents[j].error_message
        => ~(incidents[i].status \in OpenStatuses
             /\ incidents[j].status \in OpenStatuses)

\* the n-th item enqueued for the app is dequeued in the end
EventuallyDequeued(app_id, n) ==
    (Len(enq_log[app_id]) >= n) ~> (Len(deq_log[app_id]) >= n)

\* C5 as stated: with every worker scheduled and every agent call ending,
\* every item enqueued for an app is eventually dequeued.
C5_EveryItemDequeued ==
    \A a \in AppIds : \A n \in IncidentIds : EventuallyDequeued(a, n)

C7_WorkerEndsOnEmptyQueue ==
    [][\A k \in TaskIds :
          tasks[k].pc # "done" /\ tasks'[k].pc = "done"
          => app_queues'[tasks[k].app_id].items = <<>>]_vars

\* the step appended exactly one row to table analyses
OneNewAnalysis ==
    /\ Len(analyses') = Len(analyses) + 1
    /\ SubSeq(analyses', 1, Len(analyses)) = analyses

\* the step ends a failed agent call of the incident
AgentFailedFor(i) == agent_log[i] = Running /\ agent_log'[i] = Raised

\* after the step the incident is open and its one new Analysis records
\* the failure, with no pull-request reference
FailureRecorded(i) ==
    /\ Exists(incidents', i)
    /\ incidents'[i].status = "open"
    /\ OneNewAnalysis
    /\ Last(analyses').incident_id = i
    /\ Last(analyses').root_cause = "Analysis failed"
    /\ Last(analyses').pr_url = ""
    /\ Last(analyses').pr_number = 0

UrlPlaces(output) == {p \in 1 .. Len(output) : output[p].kind = "url"}

\* the first of them
FirstUrl(output) ==
    output[CHOOSE p \in UrlPlaces(output) : \A q \in UrlPlaces(output) : p <= q]

\* the step ends a successful agent call of the incident whose output
\* holds a well-formed URL
AgentGaveUrlFor(i) ==
    /\ agent_log[i] = Running
    /\ agent_log'[i].state = "returned"
    /\ UrlPlaces(agent_log'[i].output) # {}

\* after the step the incident is pr_created and its one new Analysis
\* stores the URL of the output and its number
UrlRecorded(i) ==
    /\ Exists(incidents', i)
    /\ incidents'[i].status = "pr_created"
    /\ OneNewAnalysis
    /\ Last(analyses').incident_id = i
    /\ Last(analyses').pr_url = UrlText(FirstUrl(agent_log'[i].output).number)
    /\ Last(analyses').pr_number = FirstUrl(agent_log'[i].output).number

AwaitsRetry(i) ==
    /\ Exists(incidents, i)
    /\ \/ incidents[i].status = "open" /\ agent_log[i] = Raised
       \/ /\ incidents[i].status = "analyzing"
          /\ agent_log[i].state = "returned"

\* C10 as stated, in its first step: while an incident awaits a retry, the
\* ingest filter admits an identical report (which alone creates the item
\* a new attempt starts from).
C10_RetryAdmitted ==
    \A i \in IncidentIds :
        AwaitsRetry(i)
        => IngestExisting(incidents, incidents[i].app_id, incidents[i].source,
                          incidents[i].error_message) = {}

\* the existing incidents with the triple of incident i
SameTriple(i) ==
    { j \in IncidentIds :
        /\ Exists(incidents, j)
        /\ incidents[j].app_id = incidents[i].app_id
        /\ incidents[j].source = incidents[i].source
        /\ incidents[j].error_message = incidents[i].error_message }

\* C11 as stated: while the incident that the first report of a triple
\* created (the newest row of the triple) is open, analyzing or pr_created,
\* an identical report can only be answered "duplicate" with that
\* incident's id, and so creates no row and enqueues nothing.
C11_DuplicateOfFirst ==
    \A i \in IncidentIds :
        /\ Exists(incidents, i)
        /\ incidents[i].status \in OpenStatuses
        /\ \A j \in SameTriple(i) : j <= i
        => DedupAnswers(incidents[i].app_id, incidents[i].source,
                        incidents[i].error_message)
              = {[status |-> "duplicate", incident_id |-> i]}

\* the owner of the app has no access token
NoCredential(a) == users[apps[a].user_id].access_token = ""

\* a well-formed failure event for the app's project whose signature the
\* handler does not reject, while the app is in steady state
FailureEventFor(a, event, signature) ==
    /\ event.type = "deployment.error"
    /\ event.id # "" /\ event.name # ""
    /\ apps[a].vercel_project_id = event.name
    /\ apps[a].pipeline_step = "ready"
    /\ ~SignatureRejected(event, signature)

\* C12 as stated: when the owner's credential is unavailable, both intake
\* endpoints still go on to record the incident: a runtime report that is
\* no duplicate is answered "created", and a deployment failure is taken
\* on to the log fetch that precedes the insert.
C12_Original ==
    \A a \in AppIds :
        NoCredential(a)
        => /\ \A r \in Reports :
                 /\ apps[a].webhook_key = r.webhook_key
                 /\ IngestExisting(incidents, a, r.source,
                                   r.error_message) = {}
                 => ReceiveErrorLogStatus(r.webhook_key, r.source,
                                          r.error_message) = "created"
           /\ \A event \in Events : \A signature \in Signatures(event) :
                 FailureEventFor(a, event, signature)
                 => VercelAnswer(event, signature) = "fetch"

\* C12 amended: when the owner's credential is unavailable the runtime
\* intake still records the incident, with status open, and enqueues
\* nothing; the deployment-failure intake ignores the event: no step
\* creates a vercel incident for the app or enqueues anything for it.
C12_RecordedNotEnqueued ==
    [][\A a \in AppIds :
          NoCredential(a)
          => /\ app_queues'[a] = app_queues[a]
             /\ enq_log'[a] = enq_log[a]
             /\ \A i \in IncidentIds :
                   /\ ~Exists(incidents, i)
                   /\ Exists(incidents', i)
                   /\ incidents'[i].app_id = a
                   => /\ incidents'[i].status = "open"
                      /\ incidents'[i].source # "vercel"
             /\ \A r \in Reports :
                   /\ apps[a].webhook_key = r.webhook_key
                   /\ IngestExisting(incidents, a, r.source,
                                     r.error_message) = {}
                   => ReceiveErrorLogStatus(r.webhook_key, r.source,
                                            r.error_message) = "created"
             /\ \A event \in Events : \A signature \in Signatures(event) :
                   FailureEventFor(a, event, signature)
                   => VercelAnswer(event, signature)
                         = "ignored: no github token"]_vars

\* C12 witness: an app whose owner has no credential has an open incident
\* from a runtime report and nothing was ever enqueued for it.
C12_Witness ==
    \E a \in AppIds : \E i \in IncidentIds :
        /\ NoCredential(a)
        /\ incidents[i].app_id = a
        /\ incidents[i].source = "server"
        /\ incidents[i].status = "open"
        /\ enq_log[a] = <<>>
        /\ \E event \in Events :
              FailureEventFor(a, event, Hmac("whsec", event))

\* C13 as stated: with a secret configured, no request whose signature is
\* not the HMAC of its body under that secret (a wrong one, or none) is
\* taken on by the handler: it is rejected and changes no state.
C13_SignatureRequired ==
    [][\A event \in Events : \A signature \in Signatures(event) :
          /\ settings.vercel_webhook_secret # ""
          /\ signature # Hmac(settings.vercel_webhook_secret, event)
          => ~VercelBegin(event, signature)]_vars

\* the steps of the setup pipeline before the first steady state, the
\* step a failed setup leaves ("error") included
SetupSteps == PipelineSteps \ {"ready"}

\* C14 as stated: no deployment-failure event is taken on for an app whose
\* pipeline_step is a setup step, and one for an app in steady state
\* (well-formed, not rejected, owner with a token) is taken on.
C14_IgnoredDuringSetup ==
    [][\A a \in AppIds :
       \A event \in Events : \A signature \in Signatures(event) :
          /\ (/\ event.name # ""
              /\ apps[a].vercel_project_id = event.name
              /\ apps[a].pipeline_step \in SetupSteps
              => ~VercelBegin(event, signature))
          /\ (FailureEventFor(a, event, signature) /\ ~NoCredential(a)
              => VercelAnswer(event, signature) = "fetch")]_vars

\* C15 as stated: a deployment webhook of another type than
\* deployment.error is answered "ignored".
C15_Original ==
    \A event \in Events : \A signature \in Signatures(event) :
        event.type # "deployment.error"
        => VercelAnswer(event, signature) = "ignored: event type"

\* C15 amended: a deployment webhook of another type than deployment.error
\* is answered "ignored" unless the signature check rejects it (401), and
\* either way it is not taken on: no step of the handler on it changes
\* the state.
C15_NonFailureIgnored ==
    [][\A event \in Events : \A signature \in Signatures(event) :
          event.type # "deployment.error"
          => /\ VercelAnswer(event, signature) =
                   IF /\ settings.vercel_webhook_secret # ""
                      /\ signature.present
                      /\ signature # Hmac(settings.vercel_webhook_secret,
                                          event)
                   THEN "401" ELSE "ignored: event type"
             /\ ~VercelBegin(event, signature)]_vars

\* C15 witness: an event of another type for a known project of a deployment
\* whose failure event is being handled is answered "ignored" while
\* incidents exist.
C15_Witness ==
    \E event \in Events :
        /\ event.type # "deployment.error"
        /\ VercelApps(event.name) # {}
        /\ VercelAnswer(event, Hmac("whsec", event)) = "ignored: event type"
        /\ \E f \in BagToSet(fetching) : f.deployment_id = event.id
        /\ \E i \in IncidentIds : Exists(incidents, i)

\* the webhook key of the report is the key of no app
UnknownKey(r) == \A a \in AppIds : apps[a].webhook_key # r.webhook_key

\* C16: a runtime report whose webhook key matches no app is rejected with
\* the handler's error answer (404, unknown webhook key) and no step of the
\* handler on it changes the state: no incident, nothing enqueued.
C16_UnknownKeyRejected ==
    [][\A r \in Reports :
          UnknownKey(r)
          => /\ ReceiveErrorLogStatus(r.webhook_key, r.source,
                                      r.error_message) = "404"
             /\ ~ReceiveErrorLog(r.webhook_key, r.source,
                                 r.error_message)]_vars

\* C16 witness: a report with an unknown key is answered 404 in a state
\* where the same source and message under a known key would be answered
\* "created" and another incident is being worked on.
C16_Witness ==
    \E r, q \in Reports :
        /\ UnknownKey(r)
        /\ ReceiveErrorLogStatus(r.webhook_key, r.source,
                                 r.error_message) = "404"
        /\ q.source = r.source /\ q.error_message = r.error_message
        /\ ReceiveErrorLogStatus(q.webhook_key, q.source,
                                 q.error_message) = "created"
        /\ next_incident \in IncidentIds
        /\ \E i \in IncidentIds : InFlight(i)

\* the order open < analyzing < pr_created < resolved
Rank(status) ==
    CASE status = "open" -> 1
      [] status = "analyzing" -> 2
      [] status = "pr_created" -> 3
      [] status = "resolved" -> 4

\* C17 as stated: the status of an incident only moves forward in that
\* order, but for analyzing -> open when its agent call fails; so a
\* resolved incident never changes status again.
C17_StatusMonotone ==
    [][\A i \in IncidentIds :
          Exists(incidents, i) /\ Exists(incidents', i)
          => \/ Rank(incidents[i].status) <= Rank(incidents'[i].status)
             \/ /\ incidents[i].status = "analyzing"
                /\ incidents'[i].status = "open"
                /\ AgentFailedFor(i)]_vars

\* C18: enqueue_incident never waits.  A report that is no duplicate can be
\* taken in every state, whatever the queue holds and the worker does; the
\* step that enqueues appends the item at the tail of the app's queue,
\* leaves the new incident open and a worker for the app unfinished, and
\* contains no dequeue and no progress of an agent call.
C18_EnqueueNeverWaits ==
    [][/\ \A r \in Reports :
             /\ next_incident \in IncidentIds
             /\ ReceiveErrorLogStatus(r.webhook_key, r.source,
                                      r.error_message) = "created"
             => ENABLED ReceiveErrorLog(r.webhook_key, r.source,
                                        r.error_message)
       /\ \A a \in AppIds :
             enq_log'[a] # enq_log[a]
             => /\ enq_log'[a] = Append(enq_log[a], next_incident)
                /\ incidents'[next_incident].app_id = a
                /\ incidents'[next_incident].status = "open"
                /\ app_queues'[a].items =
                      Append(app_queues[a].items,
                             QueueItem(a, next_incident,
                                 incidents'[next_incident].error_message))
                /\ \E k \in TaskIds :
                      tasks'[k].app_id = a /\ tasks'[k].pc \in {"created", "agent"}
                /\ deq_log' = deq_log
                /\ agent_log' = agent_log]_vars

\* C18 witness: an incident was enqueued while the app's worker was in an
\* agent call, and waits at the tail of the queue, still open.
C18_Witness ==
    \E a \in AppIds :
        /\ Len(app_queues[a].items) >= 1
        /\ \E k \in TaskIds : tasks[k].app_id = a /\ tasks[k].pc = "agent"
        /\ LET item == app_queues[a].items[Len(app_queues[a].items)]
           IN /\ item.incident_id = Last(enq_log[a])
              /\ incidents[item.incident_id].status = "open"

\* C19 as stated: whenever the queue of an app holds an item, a worker of
\* the app exists that has not finished.
C19_NoStrandedItem ==
    \A a \in AppIds :
        app_queues[a].items # <<>> => Unfinished(a) # {}

\* the incidents the step dequeued for the app
Dequeued(a) ==
    { deq_log'[a][n] : n \in Len(deq_log[a]) + 1 .. Len(deq_log'[a]) }

\* the step dequeued the incident and skipped it: its row exists and no
\* worker took it on to the runner
Skipped(a, i) ==
    /\ i \in Dequeued(a)
    /\ Exists(incidents', i)
    /\ \A k \in TaskIds : tasks'[k].item.incident_id # i

\* C20 as stated: a dequeued item is skipped only if another incident with
\* the same app, the same source and the same message is open, analyzing
\* or pr_created; an incident that differs in source causes no skip.
C20_SkipOnSameTriple ==
    [][\A a \in AppIds : \A i \in IncidentIds :
          Skipped(a, i)
          => \E j \in IncidentIds :
                /\ j # i
                /\ incidents'[j].app_id = a
                /\ incidents'[j].source = incidents'[i].source
                /\ incidents'[j].error_message = incidents'[i].error_message
                /\ incidents'[j].status \in OpenStatuses]_vars

\* C21: when the dequeue-time re-check skips an item, the incident's row is
\* as before, no Analysis is added for it, no agent call is made for it,
\* and the worker goes on: the step ends with a later item in the agent
\* call or with the queue empty.
C21_SkipChangesNothing ==
    [][\A a \in AppIds : \A i \in IncidentIds :
          Skipped(a, i)
          => /\ incidents'[i] = incidents[i]
             /\ AnalysesOf(analyses', i) = AnalysesOf(analyses, i)
             /\ agent_log'[i] = agent_log[i]
             /\ \/ app_queues'[a].items = <<>>
                \/ \E k \in TaskIds :
                      /\ tasks'[k].app_id = a
                      /\ tasks'[k].pc = "agent"
                      /\ tasks'[k].item.incident_id = Last(deq_log'[a])
                      /\ tasks'[k].item.incident_id # i]_vars

\* C21 witness: an item was dequeued and skipped (its incident, resolved
\* while queued, was never given to the agent and has no Analysis) and the
\* item after it is in the agent call.
C21_Witness ==
    \E a \in AppIds : \E n \in 1 .. Len(deq_log[a]) :
        /\ n < Len(deq_log[a])
        /\ Exists(incidents, deq_log[a][n])
        /\ incidents[deq_log[a][n]].status = "resolved"
        /\ agent_log[deq_log[a][n]] = NoCall
        /\ AnalysesOf(analyses, deq_log[a][n]) = <<>>
        /\ InFlight(deq_log[a][n + 1])

\* C22: the agent call of an incident starts in a step that leaves its
\* status analyzing committed, and while the call is in flight the row, if
\* no delete removed it and no resolve rewrote it, reads analyzing.
C22_AnalyzingBeforeAgent ==
    [][\A i \in IncidentIds :
          /\ (agent_log[i] = NoCall /\ agent_log'[i] = Running
                 => Exists(incidents', i) /\ incidents'[i].status = "analyzing")
          /\ (InFlight(i) /\ Exists(incidents, i)
                 => incidents[i].status \in {"analyzing", "resolved"})]_vars

\* C22 witness: an agent call is in flight, its incident reads analyzing,
\* and an earlier incident of the app has been through the agent already.
C22_Witness ==
    \E i, j \in IncidentIds :
        /\ InFlight(i)
        /\ incidents[i].status = "analyzing"
        /\ j # i
        /\ incidents[j].app_id = incidents[i].app_id
        /\ agent_log[j].state \in {"returned", "raised"}

\* the other incidents of the app with the message of incident i that are
\* open, analyzing or pr_created in the rows incs
Rivals(incs, i) ==
    { j \in IncidentIds :
        /\ j # i
        /\ incs[j].app_id = incs[i].app_id
        /\ incs[j].error_message = incs[i].error_message
        /\ incs[j].status \in OpenStatuses }

\* C23: the re-check and the commit of analyzing are one step.  The rows
\* the step leaves, in which the incident is analyzing, are rows on which
\* the re-check passes: nothing created or changed a rival in between.
C23_CheckAndMarkAtomic ==
    [][\A i \in IncidentIds :
          agent_log[i] = NoCall /\ agent_log'[i] = Running
          => /\ incidents'[i].status = "analyzing"
             /\ Rivals(incidents', i) = {}]_vars

\* C23 witness: an incident is in its agent call while an earlier incident
\* of the app with the same message, resolved before the re-check, exists.
C23_Witness ==
    \E i, j \in IncidentIds :
        /\ InFlight(i)
        /\ j < i
        /\ incidents[j].app_id = incidents[i].app_id
        /\ incidents[j].error_message = incidents[i].error_message
        /\ incidents[j].status = "resolved"
        /\ agent_log[j] = NoCall

\* the step ends the agent call of the incident, with a result or a failure
AttemptEndsFor(i) ==
    agent_log[i] = Running /\ agent_log'[i].state \in {"returned", "raised"}

AgentGaveNoUrlFor(i) ==
    /\ agent_log[i] = Running
    /\ agent_log'[i].state = "returned"
    /\ UrlPlaces(agent_log'[i].output) = {}

\* after the step the incident is analyzing, its one new Analysis holds
\* what was parsed and no pull-request reference, and the incident was not
\* put on a queue
NoUrlRecorded(i) ==
    /\ Exists(incidents', i)
    /\ incidents'[i].status = "analyzing"
    /\ OneNewAnalysis
    /\ Last(analyses').incident_id = i
    /\ Last(analyses').root_cause = "parsed"
    /\ Last(analyses').suggested_fix = agent_log'[i].output
    /\ Last(analyses').pr_url = ""
    /\ Last(analyses').pr_number = 0
    /\ enq_log' = enq_log
    /\ \A a \in AppIds : \A n \in 1 .. Len(app_queues'[a].items) :
          app_queues'[a].items[n].incident_id # i

TaskCreated(k) == tasks[k].pc = "none" /\ tasks'[k].pc # "none"

\* the step ends the task
TaskExits(k) == tasks[k].pc # "done" /\ tasks'[k].pc = "done"

\* C26 as stated: a worker task is created only by an enqueue for its app
\* that finds no unfinished worker; a worker exits only on an empty queue,
\* and leaves its app with no worker handle and no queue entry.
C26_IdleActiveMachine ==
    [][\A k \in TaskIds :
          /\ TaskCreated(k)
             => LET a == tasks'[k].app_id IN
                /\ Len(enq_log'[a]) = Len(enq_log[a]) + 1
                /\ app_workers[a] = 0 \/ tasks[app_workers[a]].pc = "done"
                /\ app_workers'[a] = k
          /\ TaskExits(k)
             => LET a == tasks[k].app_id IN
                /\ app_queues'[a].items = <<>>
                /\ app_workers'[a] = 0
                /\ ~app_queues'[a].present]_vars

\* the incident is resolved and no row with its triple is open, analyzing
\* or pr_created: the earlier incident of the triple has been resolved
ResolvedTriple(incs, i) ==
    /\ Exists(incs, i)
    /\ incs[i].status = "resolved"
    /\ \A j \in IncidentIds :
          /\ Exists(incs, j)
          /\ incs[j].app_id = incs[i].app_id
          /\ incs[j].source = incs[i].source
          /\ incs[j].error_message = incs[i].error_message
          => incs[j].status \notin OpenStatuses

\* the step admitted a report with the triple of incident i: a new row
\* with a new id, open, and one item enqueued for it when the owner has a
\* token
AdmittedAgain(i) ==
    /\ next_incident' = next_incident + 1
    /\ ~Exists(incidents, next_incident)
    /\ incidents'[next_incident] =
          Incident(incidents[i].app_id, incidents[i].source,
                   incidents[i].error_message)
    /\ incidents'[next_incident].status = "open"
    /\ enq_log'[incidents[i].app_id] =
          IF users[apps[incidents[i].app_id].user_id].access_token # ""
          THEN Append(enq_log[incidents[i].app_id], next_incident)
          ELSE enq_log[incidents[i].app_id]

\* C27 as stated: once the earlier incident of a triple has been resolved,
\* an identical report is answered "created", and a step that handles one
\* admits it; the triple stays admittable until a report is admitted or
\* the resolved incident is deleted.
C27_ResolvedAdmitsAgain ==
    [][\A i \in IncidentIds :
          ResolvedTriple(incidents, i)
          => /\ \A r \in Reports :
                   /\ apps[incidents[i].app_id].webhook_key = r.webhook_key
                   /\ r.source = incidents[i].source
                   /\ r.error_message = incidents[i].error_message
                   => /\ ReceiveErrorLogStatus(r.webhook_key, r.source,
                                               r.error_message) = "created"
                      /\ ReceiveErrorLog(r.webhook_key, r.source,
                                         r.error_message)
                         => AdmittedAgain(i)
             /\ \/ ResolvedTriple(incidents', i)
                \/ AdmittedAgain(i)
                \/ ~Exists(incidents', i)]_vars

\* how often the incident occurs in a log
Occurrences(log, i) == Len(SelectSeq(log, LAMBDA x : x = i))

\* C28: a restart changes no row of the database, and an incident whose
\* item was queued or in the agent call at a restart is never dequeued
\* again, gets no agent outcome and no Analysis, and its row changes only
\* by an operator's resolve_incident or delete_incident.
C28_RestartLosesItems ==
    [][/\ Restart => incidents' = incidents /\ analyses' = analyses
       /\ \A i \in lost :
             /\ agent_log'[i] = agent_log[i]
             /\ \A a \in AppIds :
                   /\ Occurrences(deq_log'[a], i) = Occurrences(deq_log[a], i)
                   /\ Occurrences(enq_log'[a], i) = Occurrences(enq_log[a], i)
             /\ \/ AnalysesOf(analyses', i) = AnalysesOf(analyses, i)
                \/ ~Exists(incidents', i)
             /\ \/ incidents'[i] = incidents[i]
                \/ ~Exists(incidents', i)
                \/ incidents'[i] = [incidents[i] EXCEPT !.status = "resolved"]]_vars

\* C28 witness: after a restart, with no agent call running and every queue
\* empty, of two incidents of before the restart the queued one is still
\* open and never got an agent call, and the one that was in the agent call
\* is still analyzing with no Analysis.
C28_Witness ==
    \E i, j \in lost :
        /\ incidents[i].status = "open" /\ agent_log[i] = NoCall
        /\ incidents[j].status = "analyzing" /\ agent_log[j] = Running
        /\ AnalysesOf(analyses, j) = <<>>
        /\ \A k \in TaskIds : tasks[k].pc # "agent"
        /\ \A a \in AppIds : app_queues[a].items = <<>>

\* the incidents of the app that were enqueued, still exist and carry the
\* message
Carrying(a, m) ==
    { i \in IncidentIds :
        /\ Occurrences(enq_log[a], i) > 0
        /\ Exists(incidents, i)
        /\ incidents[i].error_message = m }

\* one enqueued incident with the message got its agent attempt, or every
\* one of them is resolved or deleted
AttemptedOrSettled(a, m) ==
    \/ \E i \in Carrying(a, m) : agent_log[i] # NoCall
    \/ \A i \in Carrying(a, m) : incidents[i].status = "resolved"

\* C29 as stated: once incidents carrying an error message have been
\* enqueued for an app, one of them eventually gets an agent attempt,
\* unless all of them are resolved or deleted first.
C29_OneCarrierAttempted ==
    \A a \in AppIds : \A r \in Reports :
        (Carrying(a, r.error_message) # {})
            ~> AttemptedOrSettled(a, r.error_message)

\* how many items were enqueued, or dequeued, for the incident so far; how
\* many items of it the queues hold
Enqueues(log, i) == Occurrences(log[1], i) + Occurrences(log[2], i)
QueuedItems(queues, i) ==
    Len(SelectSeq(queues[1].items, LAMBDA x : x.incident_id = i))
    + Len(SelectSeq(queues[2].items, LAMBDA x : x.incident_id = i))

\* C30: an item is enqueued for an incident only by the step that inserts
\* its row, and after every step each incident has at most one queue item,
\* past or present, and at most one Analysis.
C30_EnqueuedAndAnalysedOnce ==
    [][\A i \in IncidentIds :
          /\ Enqueues(enq_log', i) > Enqueues(enq_log, i)
             => /\ i = next_incident
                /\ ~Exists(incidents, i)
                /\ Exists(incidents', i)
          /\ Enqueues(enq_log', i) <= 1
          /\ Enqueues(deq_log', i) + QueuedItems(app_queues', i) <= 1
          /\ Len(AnalysesOf(analyses', i)) <= 1]_vars

\* C30 witness: both incidents had their one item enqueued and dequeued,
\* one went through the agent and has its one Analysis, the other was
\* skipped and has none.
C30_Witness ==
    \E i, j \in IncidentIds :
        /\ Enqueues(enq_log, i) = 1 /\ Enqueues(deq_log, i) = 1
        /\ Enqueues(enq_log, j) = 1 /\ Enqueues(deq_log, j) = 1
        /\ Exists(incidents, i) /\ Exists(incidents, j)
        /\ agent_log[i].state = "returned"
        /\ Len(AnalysesOf(analyses, i)) = 1
        /\ agent_log[j] = NoCall
        /\ AnalysesOf(analyses, j) = <<>>
        /\ \A a \in AppIds : app_queues[a].items = <<>>

\* the incidents a suspended deployment request would be a duplicate of
OpenOfDeployment(incs, f) ==
    { i \in IncidentIds :
        /\ incs[i].app_id = f.app_id
        /\ incs[i].source = "vercel"
        /\ incs[i].error_message = DeploymentMessage(f.deployment_id)
        /\ incs[i].status \in OpenStatuses }

\* C31 as stated: when a request for the same app and deployment created an
\* incident while this request was suspended in the fetch, this request can
\* only be answered "duplicate" with that incident's id.
C31_Original ==
    \A f \in BagToSet(fetching) :
        f.peer # 0 => OpenOfDeployment(incidents, f) = {f.peer}

\* C31 amended: a request whose fetch returns while an incident of its
\* deployment is open, analyzing or pr_created creates no row and enqueues
\* nothing; otherwise it creates exactly one row and one item, and the
\* requests for the same deployment that are still suspended find that row
\* for as long as it stays open, analyzing or pr_created.
C31_ConcurrentDeploymentOnce ==
    [][/\ \A f \in BagToSet(fetching) :
             VercelFinish(f)
             => IF OpenOfDeployment(incidents, f) # {}
                THEN /\ incidents' = incidents
                     /\ next_incident' = next_incident
                     /\ enq_log' = enq_log
                     /\ app_queues' = app_queues
                ELSE /\ incidents' =
                           [incidents EXCEPT ![next_incident] =
                               Incident(f.app_id, "vercel",
                                        DeploymentMessage(f.deployment_id))]
                     /\ next_incident' = next_incident + 1
                     /\ enq_log' =
                           [enq_log EXCEPT ![f.app_id] =
                               Append(@, next_incident)]
                     /\ \A g \in BagToSet(fetching') :
                           SameDeployment(f, g) => g.peer = next_incident
       /\ \A g \in BagToSet(fetching') :
             /\ g.peer # 0
             /\ Exists(incidents', g.peer)
             /\ incidents'[g.peer].status \in OpenStatuses
             => g.peer \in OpenOfDeployment(incidents', g)]_vars

\* C31 witness: of two requests for one deployment that were suspended
\* together, one has created the only incident and enqueued its item, the
\* other is still suspended and would be answered "duplicate".
C31_Witness ==
    \E f \in BagToSet(fetching) :
        /\ f.peer # 0
        /\ OpenOfDeployment(incidents, f) = {f.peer}
        /\ next_incident = f.peer + 1
        /\ Enqueues(enq_log, f.peer) = 1

\* the open, analyzing or pr_created incidents of the app itself with the
\* source and the message
OwnOpen(incs, b, source, error_message) ==
    { j \in IncidentIds :
        /\ incs[j].app_id = b
        /\ incs[j].source = source
        /\ incs[j].error_message = error_message
        /\ incs[j].status \in OpenStatuses }

\* C32: whether a report for app b is a duplicate is decided by the
\* incidents of b alone (whatever rows other apps have, also with the same
\* source and message), and an item of b is skipped at dequeue only when
\* another incident of b itself with its message is open, analyzing or
\* pr_created.
C32_DedupScopedToApp ==
    [][/\ \A r \in Reports : \A b \in AppIds :
             apps[b].webhook_key = r.webhook_key
             => /\ ReceiveErrorLogStatus(r.webhook_key, r.source,
                                         r.error_message) = "duplicate"
                   <=> OwnOpen(incidents, b, r.source, r.error_message) # {}
                /\ \A answer \in DedupAnswers(b, r.source, r.error_message) :
                      answer.status = "duplicate"
                      => incidents[answer.incident_id].app_id = b
       /\ \A f \in BagToSet(fetching) :
             VercelFinish(f) /\ incidents' = incidents
             => OwnOpen(incidents, f.app_id, "vercel",
                        DeploymentMessage(f.deployment_id)) # {}
       /\ \A b \in AppIds : \A i \in IncidentIds :
             Skipped(b, i)
             => \E j \in IncidentIds :
                   /\ j # i
                   /\ incidents'[j].app_id = b
                   /\ incidents'[j].error_message = incidents'[i].error_message
                   /\ incidents'[j].status \in OpenStatuses]_vars

\* C32 witness: two apps each have an incident with the same source and
\* the same message, and each of the two was given to the agent.
C32_Witness ==
    \E i, j \in IncidentIds :
        /\ Exists(incidents, i) /\ Exists(incidents, j)
        /\ incidents[i].app_id # incidents[j].app_id
        /\ incidents[i].source = incidents[j].source
        /\ incidents[i].error_message = incidents[j].error_message
        /\ agent_log[i] # NoCall
        /\ agent_log[j] # NoCall

\* the step dequeued the item of an incident whose row was gone
DequeuedGone(a, i) == i \in Dequeued(a) /\ ~Exists(incidents, i)

\* C33: when the row of a dequeued item is gone, no agent call is made and
\* no Analysis is created for it, no row appears for it, the only rows the
\* step changes are those of the call that ended and of the call that
\* starts in it, and the worker goes on: the step ends with a later item in
\* the agent call or with the queue empty.
C33_GoneRowDropped ==
    [][\A a \in AppIds : \A i \in IncidentIds :
          DequeuedGone(a, i)
          => /\ agent_log'[i] = agent_log[i]
             /\ agent_log'[i] # Running
             /\ AnalysesOf(analyses', i) = <<>>
             /\ ~Exists(incidents', i)
             /\ \A k \in TaskIds : tasks'[k].item.incident_id # i
             /\ \A j \in IncidentIds :
                   incidents'[j] # incidents[j]
                   => \E k \in TaskIds :
                         \/ tasks[k].item.incident_id = j
                         \/ tasks'[k].item.incident_id = j
             /\ \/ app_queues'[a].items = <<>>
                \/ \E k \in TaskIds :
                      /\ tasks'[k].app_id = a
                      /\ tasks'[k].pc = "agent"
                      /\ tasks'[k].item.incident_id = Last(deq_log'[a])]_vars

\* C33 witness: an incident was deleted while its item was queued; the item
\* was dequeued without an agent call or an Analysis, and the item after it
\* is in the agent call.
C33_Witness ==
    \E a \in AppIds : \E n \in 1 .. Len(deq_log[a]) :
        /\ n < Len(deq_log[a])
        /\ ~Exists(incidents, deq_log[a][n])
        /\ agent_log[deq_log[a][n]] = NoCall
        /\ AnalysesOf(analyses, deq_log[a][n]) = <<>>
        /\ InFlight(deq_log[a][n + 1])
        /\ Exists(incidents, deq_log[a][n + 1])

\* C34: every Analysis record refers to an incident whose row exists.
C34_NoOrphanAnalysis ==
    \A n \in 1 .. Len(analyses) : Exists(incidents, analyses[n].incident_id)

\* C34 witness: an incident was deleted and its agent call, which failed,
\* has ended; no Analysis refers to it, while the Analysis of an incident
\* that exists is stored.
C34_Witness ==
    \E i, j \in IncidentIds :
        /\ ~Exists(incidents, i)
        /\ agent_log[i] = Raised
        /\ AnalysesOf(analyses, i) = <<>>
        /\ Exists(incidents, j)
        /\ AnalysesOf(analyses, j) # <<>>
        /\ analyses = AnalysesOf(analyses, j)

\* C35: an integration task is started for an app only by a step that
\* finds its pipeline_step pending or error and leaves it integrating; in
\* any other step a request is answered "already_started" and no
\* integrate_app step is possible; and at most one integration task per
\* app is in flight.
C35_OneIntegrationPerApp ==
    [][\A a \in AppIds :
          /\ integrations'[a] > integrations[a]
             => /\ apps[a].pipeline_step \in {"pending", "error"}
                /\ apps'[a].pipeline_step = "integrating"
                /\ integrations[a] = 0
          /\ apps[a].pipeline_step \notin {"pending", "error"}
             => /\ IntegrateAnswer(apps[a].user_id, a) = "already_started"
                /\ \A u \in UserIds : ~IntegrateApp(u, a)
          /\ integrations'[a] <= 1]_vars

\* C35 witness: an integration task is in flight for an app that
\* create_deployment has meanwhile marked as deploying; a further
\* integrate_app request is answered "already_started".
C35_Witness ==
    \E a \in AppIds :
        /\ integrations[a] = 1
        /\ apps[a].pipeline_step = "deploying"
        /\ apps[a].vercel_project_id # ""
        /\ IntegrateAnswer(apps[a].user_id, a) = "already_started"

\* C36 as stated: an integrate_app request of an owner without access
\* token leaves the app's row as it was.
C36_RejectedChangesNothing ==
    [][\A u \in UserIds : \A a \in AppIds :
          IntegrateApp(u, a) /\ users[u].access_token = ""
          => apps' = apps]_vars

\* C37 as stated: pipeline_step becomes pr_created or error only from
\* integrating, pr_merged only from pr_created or integrating, and ready
\* only from deploying.
C37_SetupOrder ==
    [][\A a \in AppIds :
          apps'[a].pipeline_step # apps[a].pipeline_step
          => /\ apps'[a].pipeline_step \in {"pr_created", "error"}
                => apps[a].pipeline_step = "integrating"
             /\ apps'[a].pipeline_step = "pr_merged"
                => apps[a].pipeline_step \in {"pr_created", "integrating"}
             /\ apps'[a].pipeline_step = "ready"
                => apps[a].pipeline_step = "deploying"]_vars

=============================================================================
